---------------------------- MODULE Spec2Model ----------------------------
(***************************************************************************)
(* libdns/regfish: the regfish Provider (GetRecords, AppendRecords,        *)
(* SetRecords, DeleteRecords), its record converter and its name           *)
(* normalizer, against a regfish API client that stores records verbatim.  *)
(*                                                                         *)
(* Go strings are sequences of one-character strings, so that trimming,    *)
(* suffix tests, splitting, number parsing and formatting are computed as  *)
(* the code computes them.                                                 *)
(***************************************************************************)
EXTENDS Integers, Sequences, FiniteSets, TLC

VARIABLES
    mutex,      \* Provider.mutex: 0 when free, else the goroutine holding it
    onceDone,   \* Provider.once: TRUE once the function passed to Do has returned
    nclient,    \* how many times rfns.NewClient has run for this Provider
    store,      \* the records held by the regfish API, in the order it lists them
    nextId,     \* the id the regfish API assigns to the next created record
    pc,         \* per goroutine: where it is in the operation it runs
    frame,      \* per goroutine: the operation's arguments and locals
    hist,       \* the operations that have returned, in order, with what they returned
    log,        \* every call made on the regfish client, in order
    ncalls,     \* operations started so far
    nfail,      \* client calls that failed so far
    store0,     \* the records the regfish API held initially
    pin,        \* converter / normalizer checks: the input
    pout        \* converter / normalizer checks: the outputs computed so far

vars == <<mutex, onceDone, nclient, store, nextId, pc, frame, hist, log,
          ncalls, nfail, store0, pin, pout>>

opVars == <<mutex, onceDone, nclient, store, nextId, pc, frame, hist, log,
            ncalls, nfail, store0>>

pureVars == <<pin, pout>>

-----------------------------------------------------------------------------
(* Bounds of the model *)

\* longest name and zone text the normalizer is checked on
MaxLen == 3

\* most whitespace-separated tokens in a provider data string the decoder is checked on
MaxFields == 4

\* time.Second in model ticks (a Duration is a number of ticks)
Second == 2

-----------------------------------------------------------------------------
(* Go strings and the standard-library functions the code calls *)

DQ == "\""

BS == "\\"

Digits == <<"0", "1", "2", "3", "4", "5", "6", "7", "8", "9">>

IsDigit(c) == \E i \in 1..10 : Digits[i] = c

DigitVal(c) == (CHOOSE i \in 1..10 : Digits[i] = c) - 1

LowerHex == <<"0", "1", "2", "3", "4", "5", "6", "7", "8", "9",
              "a", "b", "c", "d", "e", "f">>

UpperHex == <<"0", "1", "2", "3", "4", "5", "6", "7", "8", "9",
              "A", "B", "C", "D", "E", "F">>

IsHex(c) == \E i \in 1..16 : LowerHex[i] = c \/ UpperHex[i] = c

HexVal(c) == (CHOOSE i \in 1..16 : LowerHex[i] = c \/ UpperHex[i] = c) - 1

\* unicode.IsSpace, on the characters of the model
IsSpace(c) == c \in {" ", "\t"}

Lowers == <<"a", "c", "m", "n", "r", "s", "t", "v", "x">>

Uppers == <<"A", "C", "M", "N", "R", "S", "T", "V", "X">>

ToUpperChar(c) ==
    IF \E i \in 1..Len(Lowers) : Lowers[i] = c
    THEN Uppers[CHOOSE i \in 1..Len(Lowers) : Lowers[i] = c]
    ELSE c

\* strings.ToUpper
ToUpper(s) == [i \in 1..Len(s) |-> ToUpperChar(s[i])]

\* strings.HasSuffix
HasSuffix(s, suffix) ==
    /\ Len(suffix) <= Len(s)
    /\ SubSeq(s, Len(s) - Len(suffix) + 1, Len(s)) = suffix

\* strings.TrimSuffix
TrimSuffix(s, suffix) ==
    IF HasSuffix(s, suffix) THEN SubSeq(s, 1, Len(s) - Len(suffix)) ELSE s

RECURSIVE TrimRight(_, _)
\* strings.TrimRight(s, cutset) for a one-character cutset
TrimRight(s, c) ==
    IF s # <<>> /\ s[Len(s)] = c THEN TrimRight(SubSeq(s, 1, Len(s) - 1), c) ELSE s

RECURSIVE Fields(_)
\* strings.Fields: the maximal runs of non-space characters
Fields(s) ==
    IF s = <<>> THEN <<>>
    ELSE IF IsSpace(s[1]) THEN Fields(Tail(s))
    ELSE LET n == IF \E i \in 1..Len(s) : IsSpace(s[i])
                  THEN (CHOOSE i \in 1..Len(s) :
                            /\ IsSpace(s[i])
                            /\ \A j \in 1..(i - 1) : ~IsSpace(s[j])) - 1
                  ELSE Len(s)
         IN  <<SubSeq(s, 1, n)>> \o Fields(SubSeq(s, n + 1, Len(s)))

RECURSIVE SplitN(_, _, _)
\* strings.SplitN(s, sep, n) for a one-character sep and n >= 1
SplitN(s, sep, n) ==
    IF n = 1 \/ ~(\E i \in 1..Len(s) : s[i] = sep) THEN <<s>>
    ELSE LET k == CHOOSE i \in 1..Len(s) :
                      s[i] = sep /\ \A j \in 1..(i - 1) : s[j] # sep
         IN  <<SubSeq(s, 1, k - 1)>> \o SplitN(SubSeq(s, k + 1, Len(s)), sep, n - 1)

RECURSIVE Split(_, _)
\* strings.Split-like cut at every sep (used by the IPv4 parser's field scan)
Split(s, sep) ==
    IF ~(\E i \in 1..Len(s) : s[i] = sep) THEN <<s>>
    ELSE LET k == CHOOSE i \in 1..Len(s) :
                      s[i] = sep /\ \A j \in 1..(i - 1) : s[j] # sep
         IN  <<SubSeq(s, 1, k - 1)>> \o Split(SubSeq(s, k + 1, Len(s)), sep)

RECURSIVE Join(_, _)
\* strings.Join
Join(parts, sep) ==
    IF parts = <<>> THEN <<>>
    ELSE IF Len(parts) = 1 THEN parts[1]
    ELSE parts[1] \o sep \o Join(Tail(parts), sep)

RECURSIVE Itoa(_)
\* the %d verb of fmt.Sprintf, for a non-negative number
Itoa(n) ==
    IF n < 10 THEN <<Digits[n + 1]>> ELSE Itoa(n \div 10) \o <<Digits[(n % 10) + 1]>>

RECURSIVE DecVal(_)
DecVal(s) ==
    IF s = <<>> THEN 0 ELSE 10 * DecVal(SubSeq(s, 1, Len(s) - 1)) + DigitVal(s[Len(s)])

RECURSIVE HexNum(_)
HexNum(s) ==
    IF s = <<>> THEN 0 ELSE 16 * HexNum(SubSeq(s, 1, Len(s) - 1)) + HexVal(s[Len(s)])

RECURSIVE Htoa(_)
Htoa(n) ==
    IF n < 16 THEN <<LowerHex[n + 1]>> ELSE Htoa(n \div 16) \o <<LowerHex[(n % 16) + 1]>>

Pow2(bits) == IF bits = 8 THEN 256 ELSE 65536

\* strconv.ParseUint(s, 10, bitSize): an error on the empty string, on any
\* character that is not a decimal digit (a sign included) and on a value
\* that does not fit bitSize bits
ParseUint(s, bitSize) ==
    IF s = <<>> \/ \E i \in 1..Len(s) : ~IsDigit(s[i])
    THEN [err |-> TRUE, v |-> 0]
    ELSE IF Len(s) > 6 \/ DecVal(s) >= Pow2(bitSize)
         THEN [err |-> TRUE, v |-> Pow2(bitSize) - 1]
         ELSE [err |-> FALSE, v |-> DecVal(s)]

RECURSIVE Escape(_)
Escape(s) ==
    IF s = <<>> THEN <<>>
    ELSE (IF s[1] \in {DQ, BS} THEN <<BS, s[1]>> ELSE <<s[1]>>) \o Escape(Tail(s))

\* the %q verb of fmt.Sprintf: the string double-quoted, with " and \ escaped
Quote(s) == <<DQ>> \o Escape(s) \o <<DQ>>


-----------------------------------------------------------------------------
(* netip.Addr, restricted to IPv4 addresses and to the IPv6 addresses whose   *)
(* first seven groups are zero ("::" followed by the last group in hex)       *)

\* one field of a dotted quad: 1 to 3 digits, no leading zero, at most 255
IPv4Field(f) ==
    /\ Len(f) \in 1..3
    /\ \A i \in 1..Len(f) : IsDigit(f[i])
    /\ (Len(f) > 1 => f[1] # "0")
    /\ DecVal(f) <= 255

\* netip.ParseAddr: the first of '.', ':' decides the family; neither: an error
ParseAddr(s) ==
    LET dot   == \E i \in 1..Len(s) : s[i] = "."
        colon == \E i \in 1..Len(s) : s[i] = ":"
        first(c) == CHOOSE i \in 1..Len(s) : s[i] = c /\ \A j \in 1..(i - 1) : s[j] # c
        v4 == dot /\ (~colon \/ first(".") < first(":"))
        q  == Split(s, ".")
        g  == SubSeq(s, 3, Len(s))
    IN  IF v4
        THEN IF Len(q) = 4 /\ \A i \in 1..4 : IPv4Field(q[i])
             THEN [err |-> FALSE, is4 |-> TRUE, b |-> [i \in 1..4 |-> DecVal(q[i])]]
             ELSE [err |-> TRUE, is4 |-> TRUE, b |-> <<>>]
        ELSE IF /\ colon
                /\ Len(s) \in 3..6
                /\ s[1] = ":" /\ s[2] = ":"
                /\ \A i \in 1..Len(g) : IsHex(g[i])
             THEN [err |-> FALSE, is4 |-> FALSE, b |-> <<HexNum(g)>>]
             ELSE [err |-> TRUE, is4 |-> FALSE, b |-> <<>>]

\* netip.Addr.String
AddrString(ip) ==
    IF ip.is4
    THEN Join([i \in 1..4 |-> Itoa(ip.b[i])], <<".">>)
    ELSE <<":", ":">> \o Htoa(ip.b[1])

MkAddr(is4, b) == [is4 |-> is4, b |-> b]

-----------------------------------------------------------------------------
(* Name normalizer *)

\* fqdn with the name left untrimmed
fqdn_NoTrim(name, zone) ==
    LET z == TrimRight(zone, ".")
    IN  (IF ~HasSuffix(name, z) THEN name \o <<".">> \o z ELSE name) \o <<".">>

\* Provider.fqdn
fqdn(name, zone) ==
    LET n == TrimRight(name, ".")
        z == TrimRight(zone, ".")
    IN  (IF ~HasSuffix(n, z) THEN n \o <<".">> \o z ELSE n) \o <<".">>

\* libdns.RelativeName (libdns v1.1.0): both arguments lose one trailing dot,
\* the zone is cut from the end of the name, "@" stands for the zone itself
RelativeName(name, zone) ==
    LET f   == TrimSuffix(name, <<".">>)
        z   == TrimSuffix(zone, <<".">>)
        rel == TrimSuffix(f, z)
    IN  IF rel = <<>> /\ f # <<>> /\ z # <<>> THEN <<"@">> ELSE TrimSuffix(rel, <<".">>)

-----------------------------------------------------------------------------
(* Records *)

\* text used for record types
T_A == <<"A">>

T_AAAA == <<"A", "A", "A", "A">>

T_MX == <<"M", "X">>

T_TXT == <<"T", "X", "T">>

T_CNAME == <<"C", "N", "A", "M", "E">>

T_NS == <<"N", "S">>

T_SRV == <<"S", "R", "V">>

T_CAA == <<"C", "A", "A">>

\* a *int of rfns.Record: <<>> is nil, <<n>> points to n
NilInt == <<>>

PtrTo(n) == <<n>>

\* rfns.Record
ProviderRecord(id, name, type, data, ttl, prio) ==
    [id |-> id, name |-> name, type |-> type, data |-> data, ttl |-> ttl, prio |-> prio]

\* libdns.RR
MkRR(name, ttl, type, data) ==
    [kind |-> "RR", name |-> name, ttl |-> ttl, type |-> type, data |-> data]

\* libdns.Address
MkAddress(name, ttl, ip) == [kind |-> "Address", name |-> name, ttl |-> ttl, ip |-> ip]

\* libdns.MX
MkMX(name, ttl, preference, target) ==
    [kind |-> "MX", name |-> name, ttl |-> ttl, preference |-> preference, target |-> target]

\* libdns.TXT
MkTXT(name, ttl, text) == [kind |-> "TXT", name |-> name, ttl |-> ttl, text |-> text]

\* libdns.CNAME
MkCNAME(name, ttl, target) == [kind |-> "CNAME", name |-> name, ttl |-> ttl, target |-> target]

\* libdns.NS
MkNS(name, ttl, target) == [kind |-> "NS", name |-> name, ttl |-> ttl, target |-> target]

\* libdns.SRV
MkSRV(service, transport, name, ttl, priority, weight, port, target) ==
    [kind |-> "SRV", service |-> service, transport |-> transport, name |-> name,
     ttl |-> ttl, priority |-> priority, weight |-> weight, port |-> port,
     target |-> target]

\* libdns.CAA
MkCAA(name, ttl, flags, tag, value) ==
    [kind |-> "CAA", name |-> name, ttl |-> ttl, flags |-> flags, tag |-> tag, value |-> value]

\* what a call that panics yields
Panic == [kind |-> "panic"]

SP == <<" ">>

\* libdns Record.RR() (libdns v1.1.0): the record as name, TTL, type text and
\* data text. A CAA value is written with %q; an SRV name is
\* _service._transport.name
RR(record) ==
    CASE record.kind = "RR" -> record
      [] record.kind = "Address" ->
            MkRR(record.name, record.ttl, IF record.ip.is4 THEN T_A ELSE T_AAAA,
                 AddrString(record.ip))
      [] record.kind = "MX" ->
            MkRR(record.name, record.ttl, T_MX,
                 Itoa(record.preference) \o SP \o record.target)
      [] record.kind = "TXT" -> MkRR(record.name, record.ttl, T_TXT, record.text)
      [] record.kind = "CNAME" -> MkRR(record.name, record.ttl, T_CNAME, record.target)
      [] record.kind = "NS" -> MkRR(record.name, record.ttl, T_NS, record.target)
      [] record.kind = "SRV" ->
            MkRR(<<"_">> \o record.service \o <<".", "_">> \o record.transport
                     \o (IF record.name = <<"@">> THEN <<>> ELSE <<".">> \o record.name),
                 record.ttl, T_SRV,
                 Itoa(record.priority) \o SP \o Itoa(record.weight) \o SP
                     \o Itoa(record.port) \o SP \o record.target)
      [] record.kind = "CAA" ->
            MkRR(record.name, record.ttl, T_CAA,
                 Itoa(record.flags) \o SP \o record.tag \o SP \o Quote(record.value))

-----------------------------------------------------------------------------
(* Record converter *)

\* the fallback of convertToLibdnsRecord
RawOf(rec, relName, ttl) == MkRR(relName, ttl, rec.type, rec.data)

\* the MX case of convertToLibdnsRecord with the preference's parse error ignored
decodeMX_NoErrCheck(rec, relName, ttl) ==
    LET parts == Fields(rec.data)
    IN  IF Len(parts) # 2 THEN RawOf(rec, relName, ttl)
        ELSE MkMX(relName, ttl, ParseUint(parts[1], 16).v, parts[2])

\* the MX case of convertToLibdnsRecord
decodeMX(rec, relName, ttl) ==
    LET parts == Fields(rec.data)
    IN  IF Len(parts) # 2 THEN RawOf(rec, relName, ttl)
        ELSE IF ParseUint(parts[1], 16).err THEN RawOf(rec, relName, ttl)
        ELSE MkMX(relName, ttl, ParseUint(parts[1], 16).v, parts[2])

\* the SRV case of convertToLibdnsRecord
decodeSRV(rec, relName, ttl) ==
    LET parts == Fields(rec.data)
    IN  IF Len(parts) # 4 THEN RawOf(rec, relName, ttl)
        ELSE IF \/ ParseUint(parts[1], 16).err
                \/ ParseUint(parts[2], 16).err
                \/ ParseUint(parts[3], 16).err
             THEN RawOf(rec, relName, ttl)
        ELSE [kind |-> "SRV", service |-> <<>>, transport |-> <<>>, name |-> relName,
              ttl |-> ttl, priority |-> ParseUint(parts[1], 16).v,
              weight |-> ParseUint(parts[2], 16).v, port |-> ParseUint(parts[3], 16).v,
              target |-> parts[4]]

\* the CAA case of convertToLibdnsRecord
decodeCAA(rec, relName, ttl) ==
    LET parts == SplitN(rec.data, " ", 3)
    IN  IF Len(parts) # 3 THEN RawOf(rec, relName, ttl)
        ELSE IF ParseUint(parts[1], 8).err THEN RawOf(rec, relName, ttl)
        ELSE MkCAA(relName, ttl, ParseUint(parts[1], 8).v, parts[2], parts[3])

\* the A / AAAA case of convertToLibdnsRecord
decodeAddress(rec, relName, ttl) ==
    IF ParseAddr(rec.data).err THEN RawOf(rec, relName, ttl)
    ELSE MkAddress(relName, ttl, MkAddr(ParseAddr(rec.data).is4, ParseAddr(rec.data).b))

\* Provider.convertToLibdnsRecord; rec.Name[:len(rec.Name)-1] panics on an
\* empty name
convertToLibdnsRecord(rec, zone) ==
    IF rec.name = <<>> THEN Panic
    ELSE LET relName == RelativeName(SubSeq(rec.name, 1, Len(rec.name) - 1), zone)
             ttl     == rec.ttl * Second
             up      == ToUpper(rec.type)
         IN  CASE up \in {T_A, T_AAAA} -> decodeAddress(rec, relName, ttl)
               [] up = T_MX    -> decodeMX(rec, relName, ttl)
               [] up = T_TXT   -> MkTXT(relName, ttl, rec.data)
               [] up = T_CNAME -> MkCNAME(relName, ttl, rec.data)
               [] up = T_NS    -> MkNS(relName, ttl, rec.data)
               [] up = T_SRV   -> decodeSRV(rec, relName, ttl)
               [] up = T_CAA   -> decodeCAA(rec, relName, ttl)
               [] OTHER        -> RawOf(rec, relName, ttl)

\* Provider.convertFromLibdnsRecord
convertFromLibdnsRecord(record, zone) ==
    LET rr == RR(record)
    IN  ProviderRecord(0, fqdn(rr.name, zone), rr.type, rr.data, rr.ttl \div Second,
                       CASE record.kind = "MX"  -> PtrTo(record.preference)
                         [] record.kind = "SRV" -> PtrTo(record.priority)
                         [] OTHER               -> NilInt)

-----------------------------------------------------------------------------
(* The name normalizer on its own: fqdn applied to a name, to its own result *)
(* and to the other spellings of the same name                               *)

Threads == {1, 2}

\* the operation variables of a Provider nobody has called yet
OpQuiet ==
    /\ mutex = 0
    /\ onceDone = FALSE
    /\ nclient = 0
    /\ store = <<>>
    /\ nextId = 1
    /\ pc = [t \in Threads |-> "idle"]
    /\ frame = [t \in Threads |-> <<>>]
    /\ hist = <<>>
    /\ log = <<>>
    /\ ncalls = 0
    /\ nfail = 0
    /\ store0 = <<>>

NormChars == {"a", "b", "."}

StrUpTo(chars, n) == UNION {[1..k -> chars] : k \in 0..n}

\* the spellings of a zone-relative name n in zone z
Spelled(form, n, z) ==
    CASE form = "absolute"    -> [name |-> n \o <<".">> \o z, zone |-> z]
      [] form = "absoluteDot" -> [name |-> n \o <<".">> \o z \o <<".">>, zone |-> z]
      [] form = "zoneDot"     -> [name |-> n, zone |-> z \o <<".">>]

Forms == {"absolute", "absoluteDot", "zoneDot"}

InitNorm ==
    /\ OpQuiet
    /\ pin \in [name : StrUpTo(NormChars, MaxLen), zone : StrUpTo(NormChars, MaxLen)]
    /\ pout = [norm |-> <<>>, again |-> <<>>, form |-> "", spelled |-> <<>>]

\* fqdn(name, zone)
Normalize ==
    /\ pout.norm = <<>>
    /\ pout' = [pout EXCEPT !.norm = <<fqdn(pin.name, pin.zone)>>]
    /\ UNCHANGED <<pin, opVars>>

\* fqdn(fqdn(name, zone), zone)
Renormalize ==
    /\ pout.norm # <<>>
    /\ pout.again = <<>>
    /\ pout' = [pout EXCEPT !.again = <<fqdn(pout.norm[1], pin.zone)>>]
    /\ UNCHANGED <<pin, opVars>>

\* fqdn on another spelling of the same name and zone
NormalizeSpelled ==
    /\ pout.spelled = <<>>
    /\ \E form \in Forms :
          LET a == Spelled(form, pin.name, pin.zone)
          IN  pout' = [pout EXCEPT !.form = form, !.spelled = <<fqdn(a.name, a.zone)>>]
    /\ UNCHANGED <<pin, opVars>>

NextNorm == Normalize \/ Renormalize \/ NormalizeSpelled

SpecNorm == InitNorm /\ [][NextNorm]_vars

\* a name of one or more non-empty labels: not empty, no leading, trailing or
\* doubled dot
IsDomainText(s) ==
    /\ s # <<>>
    /\ s[1] # "."
    /\ s[Len(s)] # "."
    /\ \A i \in 1..(Len(s) - 1) : ~(s[i] = "." /\ s[i + 1] = ".")

\* C10: normalize is idempotent: for every name and zone,
\* fqdn(fqdn(n, z), z) = fqdn(n, z).
C10_NormalizeIdempotent ==
    (pout.norm # <<>> /\ pout.again # <<>>) => pout.again[1] = pout.norm[1]

\* C10 witness: a relative name that got the zone appended has been normalized twice.
C10_Witness ==
    /\ pout.norm # <<>> /\ pout.again # <<>>
    /\ IsDomainText(pin.name) /\ IsDomainText(pin.zone)
    /\ ~HasSuffix(pin.name, pin.zone)
    /\ Len(pout.norm[1]) = Len(pin.name) + Len(pin.zone) + 2

\* n is a relative name in zone z: well-formed text that is not already an
\* absolute spelling of a name of the zone (the zone itself, or something.z)
IsRelativeIn(n, z) ==
    /\ IsDomainText(n)
    /\ IsDomainText(z)
    /\ n # z
    /\ ~HasSuffix(n, <<".">> \o z)

\* C8: for every zone z and zone-relative name n, the relative spelling n, the
\* absolute spelling n.z, the absolute spelling with trailing dot n.z. and the
\* zone written with a trailing dot all normalize to the same name.
C8_SpellingIndependent ==
    (/\ IsRelativeIn(pin.name, pin.zone)
     /\ pout.norm # <<>> /\ pout.spelled # <<>>)
        => pout.spelled[1] = pout.norm[1]

\* C8, the part that holds: the zone's trailing dot never matters, and the two
\* absolute spellings agree with each other.
C8_ZoneDotIndependent ==
    (pout.norm # <<>> /\ pout.spelled # <<>> /\ pout.form = "zoneDot")
        => pout.spelled[1] = pout.norm[1]

-----------------------------------------------------------------------------
(* The record converter on its own: a typed record encoded and decoded back, *)
(* and a provider record decoded                                             *)

ConvZones == {<<"c">>, <<"e", ".", "c">>}

ConvNames == {<<"w">>, <<"@">>}

\* whole and fractional numbers of seconds
ConvTTLs == {Second, Second + 1, 2 * Second}

SampleIPs == {MkAddr(TRUE, <<1, 2, 3, 4>>), MkAddr(TRUE, <<10, 0, 0, 255>>),
              MkAddr(FALSE, <<1>>), MkAddr(FALSE, <<255>>)}

TypedInputs ==
    UNION { {MkAddress(n, t, ip) : ip \in SampleIPs}
            \cup {MkMX(n, t, p, tg) : p \in {0, 10, 65535}, tg \in {<<"m">>, <<>>}}
            \cup {MkTXT(n, t, tx) : tx \in {<<"t">>, <<"t", " ", "x">>, <<>>}}
            \cup {MkCNAME(n, t, <<"m">>), MkNS(n, t, <<"m">>)}
            \cup {MkSRV(sv, sv, n, t, p, 5, 443, <<"m">>) : sv \in {<<"s">>, <<>>}, p \in {0, 10}}
            \cup {MkCAA(n, t, f, <<"i">>, v) : f \in {0, 128}, v \in {<<"l">>, <<"l", ".", "o">>}}
          : n \in ConvNames, t \in ConvTTLs }

\* the tokens a provider data string is made of; the empty token makes
\* leading, trailing and doubled separators
DataTokens == {<<"0">>, <<"3", "0", "0">>, <<"6", "5", "5", "3", "6">>, <<"x">>, <<>>,
               <<"1", ".", "2", ".", "3", ".", "4">>, <<"0", "\t", "x">>}

DataTexts == UNION {{Join(ts, SP) : ts \in [1..k -> DataTokens]} : k \in 0..MaxFields}

DecodeTypes == {T_A, T_AAAA, T_MX, <<"m", "x">>, T_TXT, T_SRV, <<"S", "r", "v">>, T_CAA,
                <<"X", "X">>}

DecodeNames == {<<"w", ".", "e", ".", "c", ".">>, <<>>}

ProviderInputs ==
    {ProviderRecord(7, n, ty, d, 300, NilInt) : n \in DecodeNames, ty \in DecodeTypes,
                                                 d \in DataTexts}

InitConv ==
    /\ OpQuiet
    /\ \/ \E x \in TypedInputs, z \in ConvZones :
             pin = [dir |-> "encode", x |-> x, rec |-> <<>>, zone |-> z]
       \/ \E r \in ProviderInputs :
             pin = [dir |-> "decode", x |-> <<>>, rec |-> r, zone |-> <<"e", ".", "c">>]
    /\ pout = [enc |-> <<>>, dec |-> <<>>]

\* encode: convertFromLibdnsRecord on the typed input
Encode ==
    /\ pin.dir = "encode"
    /\ pout.enc = <<>>
    /\ pout' = [pout EXCEPT !.enc = <<convertFromLibdnsRecord(pin.x, pin.zone)>>]
    /\ UNCHANGED <<pin, opVars>>

\* decode: convertToLibdnsRecord on the provider input, or on what Encode made
Decode ==
    /\ pout.dec = <<>>
    /\ \/ /\ pin.dir = "decode"
          /\ pout' = [pout EXCEPT !.dec = <<convertToLibdnsRecord(pin.rec, pin.zone)>>]
       \/ /\ pin.dir = "encode"
          /\ pout.enc # <<>>
          /\ pout' = [pout EXCEPT !.dec = <<convertToLibdnsRecord(pout.enc[1], pin.zone)>>]
    /\ UNCHANGED <<pin, opVars>>

NextConv == Encode \/ Decode

SpecConv == InitConv /\ [][NextConv]_vars

NoSpace(s) == s # <<>> /\ \A i \in 1..Len(s) : ~IsSpace(s[i])

\* a typed record as the data model describes it: whole seconds, and the
\* fields that are written between separators are non-empty and hold none
WellFormedTyped(x) ==
    /\ x.ttl % Second = 0
    /\ x.kind \in {"MX", "CNAME", "NS", "SRV"} => NoSpace(x.target)
    /\ x.kind = "SRV" => NoSpace(x.service) /\ NoSpace(x.transport)
    /\ x.kind = "CAA" => NoSpace(x.tag)

\* C5: decode(encode(x, zone), zone) = x for every well-formed typed record x
\* of variant Address, MX, TXT, CNAME, NS, SRV or CAA.
C5_RoundTrip ==
    (pin.dir = "encode" /\ WellFormedTyped(pin.x) /\ pout.dec # <<>>)
        => pout.dec[1] = pin.x

\* the round trip for the variants whose data text is read back as written
C5_RoundTripPlain ==
    (/\ pin.dir = "encode" /\ WellFormedTyped(pin.x) /\ pout.dec # <<>>
     /\ pin.x.kind \in {"Address", "MX", "TXT", "CNAME", "NS"})
        => pout.dec[1] = pin.x

\* the whitespace-separated fields of a text, by their start positions
FieldStarts(s) == {i \in 1..Len(s) : ~IsSpace(s[i]) /\ (i = 1 \/ IsSpace(s[i - 1]))}

NumFields(s) == Cardinality(FieldStarts(s))

FieldFrom(s, i) ==
    SubSeq(s, i, CHOOSE j \in i..Len(s) :
                    /\ \A k \in i..j : ~IsSpace(s[k])
                    /\ (j = Len(s) \/ IsSpace(s[j + 1])))

\* the k-th whitespace-separated field
FieldNo(s, k) ==
    FieldFrom(s, CHOOSE i \in FieldStarts(s) :
                    Cardinality({j \in FieldStarts(s) : j < i}) = k - 1)

\* a decimal number of at most max
IsUintText(t, max) ==
    /\ t # <<>>
    /\ \A i \in 1..Len(t) : IsDigit(t[i])
    /\ Len(t) <= 6
    /\ DecVal(t) <= max

NumSeps(s) == Cardinality({i \in 1..Len(s) : s[i] = " "})

BeforeFirstSep(s) == SubSeq(s, 1, (CHOOSE i \in 1..Len(s) :
                                      s[i] = " " /\ \A j \in 1..(i - 1) : s[j] # " ") - 1)

KnownTypes == {T_A, T_AAAA, T_MX, T_TXT, T_CNAME, T_NS, T_SRV, T_CAA}

\* the data grammar of the decode table, negated: what counts as malformed
Malformed(type, data) ==
    LET up == ToUpper(type)
    IN  \/ up \notin KnownTypes
        \/ up \in {T_A, T_AAAA} /\ data \notin {AddrString(ip) : ip \in SampleIPs}
        \/ up = T_MX /\ (NumFields(data) # 2 \/ ~IsUintText(FieldNo(data, 1), 65535))
        \/ up = T_SRV /\ (\/ NumFields(data) # 4
                          \/ \E k \in 1..3 : ~IsUintText(FieldNo(data, k), 65535))
        \/ up = T_CAA /\ (NumSeps(data) < 2 \/ ~IsUintText(BeforeFirstSep(data), 255))

\* C6: for every provider record (its name fully qualified, so not empty) of
\* an unrecognized type, or of type A, AAAA, MX, SRV or CAA with data malformed
\* for the type, decode yields the Raw variant carrying the record's type and
\* data unchanged; it never aborts.
C6_MalformedDecodesToRaw ==
    (/\ pin.dir = "decode" /\ pout.dec # <<>>
     /\ pin.rec.name # <<>>
     /\ Malformed(pin.rec.type, pin.rec.data))
        => /\ pout.dec[1].kind = "RR"
           /\ pout.dec[1].type = pin.rec.type
           /\ pout.dec[1].data = pin.rec.data

\* C6 witness: an MX record in lower case whose preference is out of range
\* has been decoded.
C6_Witness ==
    /\ pin.dir = "decode" /\ pout.dec # <<>>
    /\ pin.rec.name # <<>>
    /\ pin.rec.type = <<"m", "x">>
    /\ pin.rec.data = <<"6", "5", "5", "3", "6", " ", "x">>
    /\ pout.dec[1].kind = "RR"

-----------------------------------------------------------------------------
(* The regfish API behind rfns.Client: it keeps what it is sent, assigns ids *)
(* in order and lists a domain's records in the order they were created      *)

\* operations the callers may start
MaxCalls == 3

\* input records over all the operations started
MaxWork == 3

\* client calls that may fail with a transport error
MaxFail == 1

\* operations concurrent callers may start
MaxConcurrent == 2

\* input records of one operation of concurrent callers
MaxBatch == 1

\* name lies in the domain: the domain itself or a name below it
InDomain(name, zone) ==
    LET z == TrimRight(zone, ".")
    IN  name = z \o <<".">> \/ HasSuffix(name, <<".">> \o z \o <<".">>)

RECURSIVE Filter(_, _)
Filter(recs, zone) ==
    IF recs = <<>> THEN <<>>
    ELSE (IF InDomain(recs[1].name, zone) THEN <<recs[1]>> ELSE <<>>)
             \o Filter(Tail(recs), zone)

\* rfns.Client.GetRecordsByDomain, when it succeeds
GetRecordsByDomain(zone) == Filter(store, zone)

HasId(id) == \E p \in 1..Len(store) : store[p].id = id

\* the store after rfns.Client.CreateRecord(rec) succeeded
Created(rec) == [rec EXCEPT !.id = nextId]

\* the record rfns.Client.UpdateRecordById(id, rec) leaves, when it succeeds
Updated(id, rec) == [rec EXCEPT !.id = id]

StoreUpdated(id, rec) ==
    [p \in 1..Len(store) |-> IF store[p].id = id THEN Updated(id, rec) ELSE store[p]]

RECURSIVE Without(_, _)
Without(recs, id) ==
    IF recs = <<>> THEN <<>>
    ELSE (IF recs[1].id = id THEN <<>> ELSE <<recs[1]>>) \o Without(Tail(recs), id)

\* a client call may fail with a transport error while failures remain
MayFail == nfail < MaxFail

LogEntry(t, kind, idx, id, rec, ok) ==
    [call |-> frame[t].call, t |-> t, op |-> frame[t].op, kind |-> kind, idx |-> idx,
     id |-> id, rec |-> rec, ok |-> ok]

NoRec == <<>>

-----------------------------------------------------------------------------
(* The Provider's operations *)

OpZones == {<<"c">>, <<"d", ".">>}

SeqZones == {<<"c", ".">>}

Rec1 == MkAddress(<<"w">>, Second, MkAddr(TRUE, <<1, 2, 3, 4>>))

Rec2 == MkAddress(<<"w", ".", "c", ".">>, 2 * Second, MkAddr(TRUE, <<10, 0, 0, 255>>))

\* the records callers pass: two spellings of one name, with different data
\* and TTL
OpRecords == {Rec1, Rec2}

\* records handed to the operations started so far
WorkGiven ==
    LET RECURSIVE Sum(_)
        Sum(h) == IF h = <<>> THEN 0 ELSE Len(h[1].records) + Sum(Tail(h))
        Live == {t \in Threads : pc[t] # "idle"}
        RECURSIVE SumLive(_)
        SumLive(S) == IF S = {} THEN 0
                      ELSE LET t == CHOOSE x \in S : TRUE
                           IN  Len(frame[t].records) + SumLive(S \ {t})
    IN  Sum(hist) + SumLive(Live)

\* an error return that hands back the records collected so far
Fail_Partial(out, err, idx) == [records |-> out, err |-> err, idx |-> idx]

\* what an operation returns on an error at input record idx (0: before the
\* first): return nil, fmt.Errorf(...)
Fail(out, err, idx) == [records |-> <<>>, err |-> err, idx |-> idx]

\* what an operation returns when every record went through
Done(out) == [records |-> out, err |-> "", idx |-> 0]

NoRes == <<>>

\* a caller starts an operation on one of the zones, with a list of at most
\* most of the records
CallWith(t, zones, recs, most) ==
    /\ pc[t] = "idle"
    /\ \E op \in {"get", "append", "set", "delete"}, zone \in zones,
          records \in UNION {[1..k -> recs] : k \in 0..most} :
          /\ op = "get" => records = <<>>
          /\ frame' = [frame EXCEPT ![t] =
                          [call |-> ncalls + 1, op |-> op, zone |-> zone,
                           records |-> records, i |-> 1, fetched |-> <<>>,
                           out |-> <<>>, res |-> NoRes]]
    /\ ncalls' = ncalls + 1
    /\ pc' = [pc EXCEPT ![t] = "lock"]
    /\ UNCHANGED <<mutex, onceDone, nclient, store, nextId, hist, log, nfail, store0,
                   pureVars>>

\* concurrent callers: any goroutine starts an operation on any zone
Call(t) ==
    /\ ncalls < MaxConcurrent
    /\ CallWith(t, OpZones, {Rec1}, MaxBatch)

\* one caller, one operation after the other
CallSeq ==
    /\ ncalls < MaxCalls
    /\ CallWith(1, SeqZones, OpRecords, MaxWork - WorkGiven)

\* p.mutex.Lock() without waiting for the holder
Lock_NoWait(t) ==
    /\ pc[t] = "lock"
    /\ mutex' = t
    /\ pc' = [pc EXCEPT ![t] = "init"]
    /\ UNCHANGED <<onceDone, nclient, store, nextId, frame, hist, log, ncalls, nfail,
                   store0, pureVars>>

\* p.mutex.Lock()
Lock(t) ==
    /\ pc[t] = "lock"
    /\ mutex = 0
    /\ mutex' = t
    /\ pc' = [pc EXCEPT ![t] = "init"]
    /\ UNCHANGED <<onceDone, nclient, store, nextId, frame, hist, log, ncalls, nfail,
                   store0, pureVars>>

\* where an operation goes after p.init
FirstStep(f) ==
    CASE f.op = "get"    -> "get"
      [] f.op = "delete" -> "delete_fetch"
      [] f.op = "append" -> IF f.records = <<>> THEN "return" ELSE "append"
      [] f.op = "set"    -> IF f.records = <<>> THEN "return" ELSE "upsert_fetch"

\* p.init(ctx) without the once: a client is constructed by every operation
InitClient_NoOnce(t) ==
    /\ pc[t] = "init"
    /\ onceDone' = TRUE
    /\ nclient' = nclient + 1
    /\ pc' = [pc EXCEPT ![t] = FirstStep(frame[t])]
    /\ frame' = [frame EXCEPT ![t].res =
                    IF FirstStep(frame[t]) = "return" THEN Done(<<>>) ELSE NoRes]
    /\ UNCHANGED <<mutex, store, nextId, hist, log, ncalls, nfail, store0, pureVars>>

\* p.init(ctx): once.Do(func() { p.client = *rfns.NewClient(p.APIToken) })
InitClient(t) ==
    /\ pc[t] = "init"
    /\ onceDone' = TRUE
    /\ nclient' = IF onceDone THEN nclient ELSE nclient + 1
    /\ pc' = [pc EXCEPT ![t] = FirstStep(frame[t])]
    /\ frame' = [frame EXCEPT ![t].res =
                    IF FirstStep(frame[t]) = "return" THEN Done(<<>>) ELSE NoRes]
    /\ UNCHANGED <<mutex, store, nextId, hist, log, ncalls, nfail, store0, pureVars>>

\* what convertToLibdnsRecord adds to a result list
Converted(rec, zone) == <<convertToLibdnsRecord(rec, zone)>>

RECURSIVE ConvertAll(_, _)
ConvertAll(recs, zone) ==
    IF recs = <<>> THEN <<>>
    ELSE Converted(recs[1], zone) \o ConvertAll(Tail(recs), zone)

\* GetRecords after p.init: list the domain, convert every record
GetRecords(t) ==
    /\ pc[t] = "get"
    /\ LET f == frame[t]
       IN  \/ /\ log' = Append(log, LogEntry(t, "list", 0, 0, NoRec, TRUE))
              /\ frame' = [frame EXCEPT ![t].res =
                              Done(ConvertAll(GetRecordsByDomain(f.zone), f.zone))]
              /\ UNCHANGED nfail
           \/ /\ MayFail
              /\ nfail' = nfail + 1
              /\ log' = Append(log, LogEntry(t, "list", 0, 0, NoRec, FALSE))
              /\ frame' = [frame EXCEPT ![t].res = Fail(<<>>, "transport", 0)]
    /\ pc' = [pc EXCEPT ![t] = "return"]
    /\ UNCHANGED <<mutex, onceDone, nclient, store, nextId, hist, ncalls, store0, pureVars>>

\* where a loop over the input records goes after record i went through
AfterRecord(f, again) == IF f.i = Len(f.records) THEN "return" ELSE again

\* AppendRecords, one input record: convert, CreateRecord, convert back
AppendRecords(t) ==
    /\ pc[t] = "append"
    /\ LET f   == frame[t]
           rec == convertFromLibdnsRecord(f.records[f.i], f.zone)
           out == f.out \o Converted(Created(rec), f.zone)
       IN  \/ /\ log' = Append(log, LogEntry(t, "create", f.i, nextId, rec, TRUE))
              /\ store' = Append(store, Created(rec))
              /\ nextId' = nextId + 1
              /\ frame' = [frame EXCEPT ![t].out = out, ![t].i = f.i + 1,
                              ![t].res = IF f.i = Len(f.records) THEN Done(out) ELSE NoRes]
              /\ pc' = [pc EXCEPT ![t] = AfterRecord(f, "append")]
              /\ UNCHANGED nfail
           \/ /\ MayFail
              /\ nfail' = nfail + 1
              /\ log' = Append(log, LogEntry(t, "create", f.i, 0, rec, FALSE))
              /\ frame' = [frame EXCEPT ![t].res = Fail(f.out, "transport", f.i)]
              /\ pc' = [pc EXCEPT ![t] = "return"]
              /\ UNCHANGED <<store, nextId>>
    /\ UNCHANGED <<mutex, onceDone, nclient, hist, ncalls, store0, pureVars>>

\* the record upsertRecord sends: priority only for ServiceBinding and MX
\* (the SRV case of its switch is empty)
upsertPayload(record, zone) ==
    LET rr == RR(record)
    IN  ProviderRecord(0, fqdn(rr.name, zone), rr.type, rr.data, rr.ttl \div Second,
                       CASE record.kind = "ServiceBinding" -> PtrTo(record.priority)
                         [] record.kind = "MX"             -> PtrTo(record.preference)
                         [] OTHER                          -> NilInt)

\* upsertRecord's comparison of a listed record with the wanted one
upsertSame(rec, rr, zone) ==
    fqdn(rec.name, zone) = fqdn(rr.name, zone) /\ rec.type = rr.type

\* positions of the listed records upsertRecord takes for the wanted one
upsertMatches(fetched, rr, zone) ==
    {p \in 1..Len(fetched) : upsertSame(fetched[p], rr, zone)}

Min(S) == CHOOSE x \in S : \A y \in S : x <= y

Max(S) == CHOOSE x \in S : \A y \in S : x >= y

\* upsertRecord's loop comparing the names as written
upsertMatch_RawName(fetched, rr, zone) ==
    LET m == {p \in 1..Len(fetched) : fetched[p].name = rr.name /\ fetched[p].type = rr.type}
    IN  IF m = {} THEN 0 ELSE Min(m)

\* upsertRecord's loop taking the last listed match
upsertMatch_Last(fetched, rr, zone) ==
    IF upsertMatches(fetched, rr, zone) = {} THEN 0 ELSE Max(upsertMatches(fetched, rr, zone))

\* upsertRecord's loop: the position of the first listed record with the
\* wanted name and type, 0 when there is none
upsertMatch(fetched, rr, zone) ==
    IF upsertMatches(fetched, rr, zone) = {} THEN 0 ELSE Min(upsertMatches(fetched, rr, zone))

\* SetRecords, one input record, first half: upsertRecord lists the domain
UpsertFetch(t) ==
    /\ pc[t] = "upsert_fetch"
    /\ LET f == frame[t]
       IN  \/ /\ log' = Append(log, LogEntry(t, "list", f.i, 0, NoRec, TRUE))
              /\ frame' = [frame EXCEPT ![t].fetched = GetRecordsByDomain(f.zone)]
              /\ pc' = [pc EXCEPT ![t] = "upsert_write"]
              /\ UNCHANGED nfail
           \/ /\ MayFail
              /\ nfail' = nfail + 1
              /\ log' = Append(log, LogEntry(t, "list", f.i, 0, NoRec, FALSE))
              /\ frame' = [frame EXCEPT ![t].res = Fail(f.out, "transport", f.i)]
              /\ pc' = [pc EXCEPT ![t] = "return"]
    /\ UNCHANGED <<mutex, onceDone, nclient, store, nextId, hist, ncalls, store0, pureVars>>

\* SetRecords, one input record, second half: upsertRecord updates the first
\* match or creates, SetRecords converts what came back
UpsertWrite(t) ==
    /\ pc[t] = "upsert_write"
    /\ LET f   == frame[t]
           rec == upsertPayload(f.records[f.i], f.zone)
           m   == upsertMatch(f.fetched, RR(f.records[f.i]), f.zone)
           id  == IF m = 0 THEN nextId ELSE f.fetched[m].id
           new == IF m = 0 THEN Created(rec) ELSE Updated(id, rec)
           out == f.out \o Converted(new, f.zone)
       IN  \/ /\ m = 0 \/ HasId(id)
              /\ log' = Append(log, LogEntry(t, IF m = 0 THEN "create" ELSE "update",
                                             f.i, id, rec, TRUE))
              /\ store' = IF m = 0 THEN Append(store, new) ELSE StoreUpdated(id, rec)
              /\ nextId' = IF m = 0 THEN nextId + 1 ELSE nextId
              /\ frame' = [frame EXCEPT ![t].out = out, ![t].i = f.i + 1,
                              ![t].res = IF f.i = Len(f.records) THEN Done(out) ELSE NoRes]
              /\ pc' = [pc EXCEPT ![t] = AfterRecord(f, "upsert_fetch")]
              /\ UNCHANGED nfail
           \/ /\ MayFail \/ (m # 0 /\ ~HasId(id))
              /\ nfail' = IF m # 0 /\ ~HasId(id) THEN nfail ELSE nfail + 1
              /\ log' = Append(log, LogEntry(t, IF m = 0 THEN "create" ELSE "update",
                                             f.i, IF m = 0 THEN 0 ELSE id, rec, FALSE))
              /\ frame' = [frame EXCEPT ![t].res =
                              Fail(f.out, IF m # 0 /\ ~HasId(id) THEN "api" ELSE "transport",
                                   f.i)]
              /\ pc' = [pc EXCEPT ![t] = "return"]
              /\ UNCHANGED <<store, nextId>>
    /\ UNCHANGED <<mutex, onceDone, nclient, hist, ncalls, store0, pureVars>>

\* DeleteRecords lists the domain once
DeleteFetch(t) ==
    /\ pc[t] = "delete_fetch"
    /\ LET f == frame[t]
       IN  \/ /\ log' = Append(log, LogEntry(t, "list", 0, 0, NoRec, TRUE))
              /\ frame' = [frame EXCEPT ![t].fetched = GetRecordsByDomain(f.zone),
                              ![t].res = IF f.records = <<>> THEN Done(<<>>) ELSE NoRes]
              /\ pc' = [pc EXCEPT ![t] = IF f.records = <<>> THEN "return" ELSE "delete"]
              /\ UNCHANGED nfail
           \/ /\ MayFail
              /\ nfail' = nfail + 1
              /\ log' = Append(log, LogEntry(t, "list", 0, 0, NoRec, FALSE))
              /\ frame' = [frame EXCEPT ![t].res = Fail(f.out, "transport", 0)]
              /\ pc' = [pc EXCEPT ![t] = "return"]
    /\ UNCHANGED <<mutex, onceDone, nclient, store, nextId, hist, ncalls, store0, pureVars>>

\* DeleteRecords' comparison of a listed record with an input record
deleteSame(rec, rr, zone) ==
    fqdn(rec.name, zone) = fqdn(rr.name, zone) /\ rec.type = rr.type /\ rec.data = rr.data

\* DeleteRecords' search comparing name and type only
deleteMatch_NoData(all, rr, zone) ==
    LET m == {p \in 1..Len(all) : upsertSame(all[p], rr, zone)}
    IN  IF m = {} THEN 0 ELSE all[Min(m)].id

\* DeleteRecords' search comparing the names as written
deleteMatch_RawName(all, rr, zone) ==
    LET m == {p \in 1..Len(all) :
                 all[p].name = rr.name /\ all[p].type = rr.type /\ all[p].data = rr.data}
    IN  IF m = {} THEN 0 ELSE all[Min(m)].id

\* DeleteRecords' search: rrid, the id of the first listed record with the
\* input's name, type and data, 0 when there is none
deleteMatch(all, rr, zone) ==
    LET m == {p \in 1..Len(all) : deleteSame(all[p], rr, zone)}
    IN  IF m = {} THEN 0 ELSE all[Min(m)].id

\* DeleteRecords, one input record: search the listed records, DeleteRecord
Delete(t) ==
    /\ pc[t] = "delete"
    /\ LET f    == frame[t]
           rrid == deleteMatch(f.fetched, RR(f.records[f.i]), f.zone)
           out  == Append(f.out, f.records[f.i])
       IN  \/ /\ rrid = 0
              /\ frame' = [frame EXCEPT ![t].res = Fail(f.out, "notfound", f.i)]
              /\ pc' = [pc EXCEPT ![t] = "return"]
              /\ UNCHANGED <<store, log, nfail>>
           \/ /\ rrid # 0
              /\ HasId(rrid)
              /\ log' = Append(log, LogEntry(t, "delete", f.i, rrid, NoRec, TRUE))
              /\ store' = Without(store, rrid)
              /\ frame' = [frame EXCEPT ![t].out = out, ![t].i = f.i + 1,
                              ![t].res = IF f.i = Len(f.records) THEN Done(out) ELSE NoRes]
              /\ pc' = [pc EXCEPT ![t] = AfterRecord(f, "delete")]
              /\ UNCHANGED nfail
           \/ /\ rrid # 0
              /\ MayFail \/ ~HasId(rrid)
              /\ nfail' = IF HasId(rrid) THEN nfail + 1 ELSE nfail
              /\ log' = Append(log, LogEntry(t, "delete", f.i, rrid, NoRec, FALSE))
              /\ frame' = [frame EXCEPT ![t].res =
                              Fail(f.out, IF HasId(rrid) THEN "transport" ELSE "api", f.i)]
              /\ pc' = [pc EXCEPT ![t] = "return"]
              /\ UNCHANGED store
    /\ UNCHANGED <<mutex, onceDone, nclient, nextId, hist, ncalls, store0, pureVars>>

\* the operation returns and its deferred p.mutex.Unlock() runs
Return(t) ==
    /\ pc[t] = "return"
    /\ hist' = Append(hist, [call |-> frame[t].call, t |-> t, op |-> frame[t].op,
                             zone |-> frame[t].zone, records |-> frame[t].records,
                             res |-> frame[t].res])
    /\ mutex' = 0
    /\ pc' = [pc EXCEPT ![t] = "idle"]
    /\ frame' = [frame EXCEPT ![t] = <<>>]
    /\ UNCHANGED <<onceDone, nclient, store, nextId, log, ncalls, nfail, store0, pureVars>>

\* what the domain c may hold before the first operation: nothing, or a mail
\* exchanger at its apex and two address records of one name
InitialStores ==
    {<<>>,
     <<ProviderRecord(1, <<"c", ".">>, T_MX, <<"1", "0", " ", "m">>, 5, PtrTo(10)),
       ProviderRecord(2, <<"w", ".", "c", ".">>, T_A, <<"9", ".", "9", ".", "9", ".", "9">>,
                      5, NilInt),
       ProviderRecord(3, <<"w", ".", "c", ".">>, T_A, <<"1", ".", "2", ".", "3", ".", "4">>,
                      1, NilInt)>>}

Init ==
    /\ mutex = 0
    /\ onceDone = FALSE
    /\ nclient = 0
    /\ store \in InitialStores
    /\ store0 = store
    /\ nextId = Len(store) + 1
    /\ pc = [t \in Threads |-> "idle"]
    /\ frame = [t \in Threads |-> <<>>]
    /\ hist = <<>>
    /\ log = <<>>
    /\ ncalls = 0
    /\ nfail = 0
    /\ pin = <<>>
    /\ pout = <<>>

Next ==
    \E t \in Threads :
        \/ Call(t)
        \/ Lock(t)
        \/ InitClient(t)
        \/ GetRecords(t)
        \/ AppendRecords(t)
        \/ UpsertFetch(t)
        \/ UpsertWrite(t)
        \/ DeleteFetch(t)
        \/ Delete(t)
        \/ Return(t)

Spec == Init /\ [][Next]_vars

NextSeq ==
    \/ CallSeq
    \/ Lock(1)
    \/ InitClient(1)
    \/ GetRecords(1)
    \/ AppendRecords(1)
    \/ UpsertFetch(1)
    \/ UpsertWrite(1)
    \/ DeleteFetch(1)
    \/ Delete(1)
    \/ Return(1)

SpecSeq == Init /\ [][NextSeq]_vars

-----------------------------------------------------------------------------
(* Properties of the operations *)

Writes == {"create", "update", "delete"}

\* the client calls an operation made
CallsOf(call) == {n \in 1..Len(log) : log[n].call = call}

\* goroutines past Lock and not yet returned
InCritical == {t \in Threads : pc[t] \notin {"idle", "lock"}}

\* C1: once a set has created the record of a name and type, every later set
\* for that name and type (in the same batch or a later one) updates the id
\* that create was given, as long as nobody deleted it: a second create for
\* the name and type is never issued.
C1_UpsertCreatesOnce ==
    \A i \in 1..Len(log) : \A j \in (i + 1)..Len(log) :
        (/\ log[i].op = "set" /\ log[i].kind = "create" /\ log[i].ok
         /\ log[j].op = "set" /\ log[j].kind \in {"create", "update"}
         /\ log[j].rec.name = log[i].rec.name
         /\ log[j].rec.type = log[i].rec.type
         /\ ~\E k \in (i + 1)..(j - 1) :
                log[k].kind = "delete" /\ log[k].ok /\ log[k].id = log[i].id)
            => (log[j].kind = "update" /\ log[j].id = log[i].id)

\* C1 witness: a set created a record from the relative spelling and a later
\* set, given the absolute spelling and other data, updated that id.
C1_Witness ==
    \E i \in 1..Len(log) : \E j \in (i + 1)..Len(log) :
        /\ log[i].op = "set" /\ log[i].kind = "create" /\ log[i].ok
        /\ log[j].op = "set" /\ log[j].kind = "update" /\ log[j].ok
        /\ log[j].id = log[i].id
        /\ log[j].rec.data # log[i].rec.data
        /\ log[j].call # log[i].call

\* an input record has no listed record of its normalized name, type and data
NoStrictMatch(fetched, record, zone) ==
    ~\E p \in 1..Len(fetched) :
        /\ fqdn(fetched[p].name, zone) = fqdn(RR(record).name, zone)
        /\ fetched[p].type = RR(record).type
        /\ fetched[p].data = RR(record).data

\* DeleteRecords has listed the domain
DeleteListed(t) ==
    /\ pc[t] \in {"delete", "return"}
    /\ frame[t].op = "delete"
    /\ \E n \in CallsOf(frame[t].call) : log[n].kind = "list" /\ log[n].ok

\* C2: DeleteRecords never gets past an input record that has no listed
\* record of the same normalized name, type and data: it issues no delete
\* call for it and fails there with the not-found error.
C2_DeleteUnmatchedFails ==
    \A t \in Threads :
        DeleteListed(t) =>
            \A k \in 1..Len(frame[t].records) :
                NoStrictMatch(frame[t].fetched, frame[t].records[k], frame[t].zone) =>
                    /\ frame[t].i <= k
                    /\ ~\E n \in CallsOf(frame[t].call) :
                           log[n].kind = "delete" /\ log[n].idx = k
                    /\ (pc[t] = "return" /\ frame[t].i = k) =>
                           (frame[t].res.err = "notfound" /\ frame[t].res.idx = k)

\* C2 witness: a delete failed with not-found although a listed record has
\* the input's name and type (and other data).
C2_Witness ==
    \E t \in Threads :
        /\ DeleteListed(t)
        /\ pc[t] = "return"
        /\ frame[t].res.err = "notfound"
        /\ \E p \in 1..Len(frame[t].fetched) :
              /\ fqdn(frame[t].fetched[p].name, frame[t].zone)
                     = fqdn(RR(frame[t].records[frame[t].res.idx]).name, frame[t].zone)
              /\ frame[t].fetched[p].type = RR(frame[t].records[frame[t].res.idx]).type

\* an append, set or delete is returning an error
Failing(t) ==
    /\ pc[t] = "return"
    /\ frame[t].op \in {"append", "set", "delete"}
    /\ frame[t].res.err # ""

\* C3: when an append, set or delete fails at input record k, it returns the
\* error and no records; every record before k was written and what was
\* written is still there (created and updated ids exist, deleted ids do
\* not); no client call was made for a record after k, nor after the call
\* that failed.
C3_FailFastNoRollback ==
    \A t \in Threads :
        Failing(t) =>
            LET f == frame[t]
                k == f.res.idx
            IN  /\ f.res.records = <<>>
                /\ f.i = (IF k = 0 THEN 1 ELSE k)
                /\ \A n \in CallsOf(f.call) : log[n].idx <= k
                /\ \A n \in CallsOf(f.call) :
                       ~log[n].ok => (n = Len(log) /\ log[n].idx = k)
                /\ \A j \in 1..(k - 1) :
                       \E n \in CallsOf(f.call) :
                           /\ log[n].idx = j /\ log[n].kind \in Writes /\ log[n].ok
                           /\ log[n].kind = "delete" => ~HasId(log[n].id)
                           /\ log[n].kind # "delete" => HasId(log[n].id)
                           /\ log[n].kind = "create" =>
                                  \E p \in 1..Len(store) :
                                      /\ store[p].id = log[n].id
                                      /\ store[p].name = log[n].rec.name
                                      /\ store[p].type = log[n].rec.type

\* C3 witness: an operation on three records failed at the second, after the
\* first was written.
C3_Witness ==
    \E t \in Threads :
        /\ Failing(t)
        /\ Len(frame[t].records) = 3
        /\ frame[t].res.idx = 2
        /\ frame[t].out # <<>>

\* C4: at most one operation is between Lock and the deferred Unlock, the
\* mutex is held by it, and the client calls of one operation are never
\* interleaved with those of another.
C4_MutualExclusion ==
    /\ Cardinality(InCritical) <= 1
    /\ \A t \in InCritical : mutex = t
    /\ \A i \in 1..Len(log) : \A k \in (i + 1)..Len(log) :
           log[i].call = log[k].call =>
               \A j \in i..k : log[j].call = log[i].call

\* C4 witness: a set has listed the domain and not yet written, while the
\* other goroutine waits at Lock with an operation on another zone.
C4_Witness ==
    \E t \in Threads : \E u \in Threads \ {t} :
        /\ pc[t] = "upsert_write"
        /\ pc[u] = "lock"
        /\ frame[u].zone # frame[t].zone

\* the write a set call made for its only record
WriteOf(call) == CHOOSE n \in CallsOf(call) : log[n].kind \in {"create", "update"} /\ log[n].ok

\* append [r0], then set [r] of r0's name and type, then delete [r], all on one zone
AppendSetDelete(a, s, d) ==
    /\ a.op = "append" /\ a.res.err = "" /\ Len(a.records) = 1
    /\ s.op = "set" /\ s.res.err = "" /\ Len(s.records) = 1
    /\ s.zone = a.zone
    /\ fqdn(RR(s.records[1]).name, s.zone) = fqdn(RR(a.records[1]).name, a.zone)
    /\ RR(s.records[1]).type = RR(a.records[1]).type
    /\ d.op = "delete" /\ d.records = s.records /\ d.zone = s.zone

\* C7: after append [r0] and set [r] (r of r0's name and type) succeeded, delete
\* [r] finds a record: it does not fail with not-found, every delete call it
\* makes is for the id the set wrote, and that call is accepted by the API
\* unless the transport fails.
C7_AppendSetDelete ==
    \A n \in 1..(Len(hist) - 2) :
        AppendSetDelete(hist[n], hist[n + 1], hist[n + 2]) =>
            /\ hist[n + 2].res.err \in {"", "transport"}
            /\ \A m \in CallsOf(hist[n + 2].call) :
                   log[m].kind = "delete" => log[m].id = log[WriteOf(hist[n + 1].call)].id
            /\ hist[n + 2].res.err = "" =>
                   /\ hist[n + 2].res.records = hist[n + 2].records
                   /\ \E m \in CallsOf(hist[n + 2].call) : log[m].kind = "delete" /\ log[m].ok

\* C7 witness: the sequence ran with r differing from r0 in spelling, data and
\* TTL, and the delete succeeded.
C7_Witness ==
    \E n \in 1..(Len(hist) - 2) :
        /\ AppendSetDelete(hist[n], hist[n + 1], hist[n + 2])
        /\ hist[n].records[1] = Rec1
        /\ hist[n + 1].records[1] = Rec2
        /\ hist[n + 2].res.err = ""

\* the set that made the last client call, if that call was a write
LastWriteBy(t) ==
    /\ pc[t] # "idle"
    /\ frame[t].op = "set"
    /\ log # <<>>
    /\ log[Len(log)].call = frame[t].call
    /\ log[Len(log)].kind \in {"create", "update"}

\* positions of the listed records with the wanted record's normalized name and type
SameNameType(fetched, record, zone) ==
    {p \in 1..Len(fetched) :
        /\ fqdn(fetched[p].name, zone) = fqdn(RR(record).name, zone)
        /\ fetched[p].type = RR(record).type}

\* C9: when listed records have the wanted record's normalized name and
\* type, upsert updates the first of them in list order, and makes no other
\* write for that input record; when none has, it creates.
C9_FirstMatchWins ==
    \A t \in Threads :
        LastWriteBy(t) =>
            LET f == frame[t]
                e == log[Len(log)]
                m == SameNameType(f.fetched, f.records[e.idx], f.zone)
            IN  /\ m # {} => (e.kind = "update"
                              /\ e.id = f.fetched[CHOOSE p \in m : \A q \in m : p <= q].id)
                /\ m = {} => e.kind = "create"
                /\ Cardinality({n \in CallsOf(f.call) :
                                   log[n].idx = e.idx /\ log[n].kind \in Writes}) = 1

\* C9 witness: a set updated the first of two listed records of the wanted
\* name and type.
C9_Witness ==
    \E t \in Threads :
        /\ LastWriteBy(t)
        /\ log[Len(log)].ok
        /\ Cardinality(SameNameType(frame[t].fetched, frame[t].records[log[Len(log)].idx],
                                    frame[t].zone)) >= 2

-----------------------------------------------------------------------------
(* The record set sends, beside the record append sends: upsertRecord's      *)
(* update_rec and convertFromLibdnsRecord on one typed record                *)

InitPayload ==
    /\ OpQuiet
    /\ \E x \in TypedInputs, z \in ConvZones :
          pin = [dir |-> "payload", x |-> x, rec |-> <<>>, zone |-> z]
    /\ pout = [enc |-> <<>>, ups |-> <<>>]

\* AppendRecords' payload: convertFromLibdnsRecord
PayloadOfAppend ==
    /\ pin.dir = "payload"
    /\ pout.enc = <<>>
    /\ pout' = [pout EXCEPT !.enc = <<convertFromLibdnsRecord(pin.x, pin.zone)>>]
    /\ UNCHANGED <<pin, opVars>>

\* SetRecords' payload: update_rec of upsertRecord
PayloadOfUpsert ==
    /\ pin.dir = "payload"
    /\ pout.ups = <<>>
    /\ pout' = [pout EXCEPT !.ups = <<upsertPayload(pin.x, pin.zone)>>]
    /\ UNCHANGED <<pin, opVars>>

NextPayload == PayloadOfAppend \/ PayloadOfUpsert

SpecPayload == InitPayload /\ [][NextPayload]_vars

BothPayloads == pin.dir = "payload" /\ pout.enc # <<>> /\ pout.ups # <<>>

\* C11: the record upsert sends to update or create equals the record the
\* converter encodes, the one append sends: same name, type, data, TTL and
\* priority (the preference for MX, the priority for SRV, unset otherwise).
C11_UpsertSendsEncoded ==
    BothPayloads => pout.ups[1] = pout.enc[1]

\* what does hold: the two records agree in everything but the priority of SRV
C11_SameButSRVPriority ==
    BothPayloads =>
        /\ [pout.ups[1] EXCEPT !.prio = NilInt] = [pout.enc[1] EXCEPT !.prio = NilInt]
        /\ pin.x.kind # "SRV" => pout.ups[1] = pout.enc[1]
        /\ pin.x.kind = "SRV" =>
               (pout.ups[1].prio = NilInt /\ pout.enc[1].prio = PtrTo(pin.x.priority))

-----------------------------------------------------------------------------
(* Properties of DeleteRecords' matching *)

\* the delete calls DeleteRecords has made so far
DeleteCallsBy(t) ==
    {n \in CallsOf(frame[t].call) : log[n].kind = "delete"}

\* a listed record has the normalized name, the type and the data of an input record
StrictlySame(rec, record, zone) ==
    /\ fqdn(rec.name, zone) = fqdn(RR(record).name, zone)
    /\ rec.type = RR(record).type
    /\ rec.data = RR(record).data

\* C12: every delete call of DeleteRecords is for the id of a listed record
\* whose normalized name, type and data equal those of the input record
\* being processed; a listed record with the input's name and type and other
\* data is never the target.
C12_DeleteStrictOnly ==
    \A t \in Threads :
        DeleteListed(t) =>
            \A n \in DeleteCallsBy(t) :
                /\ \E p \in 1..Len(frame[t].fetched) :
                       frame[t].fetched[p].id = log[n].id
                /\ \A p \in 1..Len(frame[t].fetched) :
                       frame[t].fetched[p].id = log[n].id =>
                           StrictlySame(frame[t].fetched[p], frame[t].records[log[n].idx],
                                        frame[t].zone)

\* C12 witness: a delete call was accepted for a record listed after another
\* record of the same name and type with other data, which was left alone.
C12_Witness ==
    \E t \in Threads :
        /\ DeleteListed(t)
        /\ \E n \in DeleteCallsBy(t) :
              /\ log[n].ok
              /\ \E p \in 1..Len(frame[t].fetched) :
                    /\ frame[t].fetched[p].id # log[n].id
                    /\ frame[t].fetched[p].type = RR(frame[t].records[log[n].idx]).type
                    /\ fqdn(frame[t].fetched[p].name, frame[t].zone)
                           = fqdn(RR(frame[t].records[log[n].idx]).name, frame[t].zone)
                    /\ frame[t].fetched[p].data # RR(frame[t].records[log[n].idx]).data
                    /\ HasId(frame[t].fetched[p].id)

-----------------------------------------------------------------------------
(* Properties of the client's construction *)

\* goroutines past p.init: where the client is used
PastInit == {t \in Threads : pc[t] \notin {"idle", "lock", "init"}}

\* C13: the client is constructed at most once per Provider, and it has been
\* constructed, once, whenever an operation is past p.init or a client call
\* has been made: every operation after the first uses the client the first
\* one constructed.
C13_ClientConstructedOnce ==
    /\ nclient <= 1
    /\ onceDone <=> nclient = 1
    /\ (PastInit # {} \/ log # <<>> \/ hist # <<>>) => nclient = 1

\* C13 witness: one goroutine's operation has returned after its client calls
\* and the other goroutine's operation has made a client call of its own.
C13_Witness ==
    \E t \in Threads : \E u \in Threads \ {t} :
        /\ hist # <<>>
        /\ hist[1].t = u
        /\ \E n \in 1..Len(log) : log[n].t = u
        /\ frame[t] # <<>>
        /\ frame[t].call <= 2
        /\ \E n \in 1..Len(log) : log[n].t = t /\ log[n].call = frame[t].call
        /\ nclient = 1

-----------------------------------------------------------------------------
(* List, then delete what was listed: GetRecords on a domain, then           *)
(* DeleteRecords with one of the records GetRecords returned                 *)

ListZone == <<"c", ".">>

\* records of the domain c as the API may hold them: a plain address, records
\* at the apex, a type in lower case, texts, CAA with and without quotes, SRV,
\* a type the converter does not know
ListedRecords ==
    {[name |-> <<"w", ".", "c", ".">>, type |-> T_A,
      data |-> <<"1", ".", "2", ".", "3", ".", "4">>, prio |-> NilInt],
     [name |-> <<"c", ".">>, type |-> T_A,
      data |-> <<"1", ".", "2", ".", "3", ".", "4">>, prio |-> NilInt],
     [name |-> <<"c", ".">>, type |-> T_MX,
      data |-> <<"1", "0", " ", "m">>, prio |-> PtrTo(10)],
     [name |-> <<"w", ".", "c", ".">>, type |-> T_MX,
      data |-> <<"1", "0", " ", "m">>, prio |-> PtrTo(10)],
     [name |-> <<"w", ".", "c", ".">>, type |-> <<"m", "x">>,
      data |-> <<"1", "0", " ", "m">>, prio |-> PtrTo(10)],
     [name |-> <<"w", ".", "c", ".">>, type |-> T_TXT,
      data |-> <<"t", " ", "x">>, prio |-> NilInt],
     [name |-> <<"w", ".", "c", ".">>, type |-> T_CAA,
      data |-> <<"0", " ", "i", " ", "l">>, prio |-> NilInt],
     [name |-> <<"w", ".", "c", ".">>, type |-> T_CAA,
      data |-> <<"0", " ", "i", " ">> \o Quote(<<"l">>), prio |-> NilInt],
     [name |-> <<"_", "s", ".", "_", "t", ".", "w", ".", "c", ".">>, type |-> T_SRV,
      data |-> <<"0", " ", "5", " ", "3", "0", "0", " ", "m">>, prio |-> PtrTo(0)],
     [name |-> <<"w", ".", "c", ".">>, type |-> <<"X", "X">>,
      data |-> <<"x">>, prio |-> NilInt]}

\* a domain of two different records
ListedStores ==
    {<<ProviderRecord(1, ab[1].name, ab[1].type, ab[1].data, 5, ab[1].prio),
       ProviderRecord(2, ab[2].name, ab[2].type, ab[2].data, 5, ab[2].prio)>> :
        ab \in {xy \in ListedRecords \X ListedRecords : xy[1] # xy[2]}}

InitList ==
    /\ mutex = 0
    /\ onceDone = FALSE
    /\ nclient = 0
    /\ store \in ListedStores
    /\ store0 = store
    /\ nextId = Len(store) + 1
    /\ pc = [t \in Threads |-> "idle"]
    /\ frame = [t \in Threads |-> <<>>]
    /\ hist = <<>>
    /\ log = <<>>
    /\ ncalls = 0
    /\ nfail = 0
    /\ pin = <<>>
    /\ pout = <<>>

\* the caller lists the domain
CallGet ==
    /\ pc[1] = "idle"
    /\ hist = <<>>
    /\ frame' = [frame EXCEPT ![1] =
                    [call |-> ncalls + 1, op |-> "get", zone |-> ListZone,
                     records |-> <<>>, i |-> 1, fetched |-> <<>>,
                     out |-> <<>>, res |-> NoRes]]
    /\ ncalls' = ncalls + 1
    /\ pc' = [pc EXCEPT ![1] = "lock"]
    /\ UNCHANGED <<mutex, onceDone, nclient, store, nextId, hist, log, nfail, store0,
                   pureVars>>

\* the caller passes one of the records GetRecords returned, unchanged, to
\* DeleteRecords on the same zone
CallDeleteListed ==
    /\ pc[1] = "idle"
    /\ Len(hist) = 1
    /\ hist[1].op = "get"
    /\ hist[1].res.err = ""
    /\ \E k \in 1..Len(hist[1].res.records) :
          frame' = [frame EXCEPT ![1] =
                       [call |-> ncalls + 1, op |-> "delete", zone |-> ListZone,
                        records |-> <<hist[1].res.records[k]>>, i |-> 1,
                        fetched |-> <<>>, out |-> <<>>, res |-> NoRes]]
    /\ ncalls' = ncalls + 1
    /\ pc' = [pc EXCEPT ![1] = "lock"]
    /\ UNCHANGED <<mutex, onceDone, nclient, store, nextId, hist, log, nfail, store0,
                   pureVars>>

NextList ==
    \/ CallGet
    \/ CallDeleteListed
    \/ Lock(1)
    \/ InitClient(1)
    \/ GetRecords(1)
    \/ DeleteFetch(1)
    \/ Delete(1)
    \/ Return(1)

SpecList == InitList /\ [][NextList]_vars

\* DeleteRecords returns, having listed the domain, in a run of SpecList
ListedDeleteReturns ==
    /\ DeleteListed(1)
    /\ pc[1] = "return"
    /\ hist # <<>>
    /\ hist[1].op = "get"

\* the ids of the records of the domain that GetRecords turned into x
SourcesOf(x) ==
    {store0[p].id : p \in {q \in 1..Len(store0) :
                              convertToLibdnsRecord(store0[q], ListZone) = x}}

\* C14: a record GetRecords returned, passed unchanged to DeleteRecords on
\* the unchanged zone, is found: DeleteRecords does not fail with not-found
\* and its delete call is for the id of the record it was listed from.
C14_ListedRecordDeletes ==
    ListedDeleteReturns =>
        /\ frame[1].res.err \in {"", "transport"}
        /\ \A n \in DeleteCallsBy(1) : log[n].id \in SourcesOf(frame[1].records[1])
        /\ frame[1].res.err = "" => DeleteCallsBy(1) # {}

\* the records for which the round trip works: below the apex, the type in
\* upper case, not SRV and not CAA
ListsBack(rec) ==
    /\ rec.name # TrimRight(ListZone, ".") \o <<".">>
    /\ rec.type = ToUpper(rec.type)
    /\ rec.type \notin {T_SRV, T_CAA}

\* what does hold: C14 for the records that list back
C14_PlainListedRecordDeletes ==
    (/\ ListedDeleteReturns
     /\ \E p \in 1..Len(store0) :
           /\ ListsBack(store0[p])
           /\ convertToLibdnsRecord(store0[p], ListZone) = frame[1].records[1])
        => /\ frame[1].res.err \in {"", "transport"}
           /\ \A n \in DeleteCallsBy(1) : log[n].id \in SourcesOf(frame[1].records[1])
           /\ frame[1].res.err = "" => DeleteCallsBy(1) # {}

\* C15: within one DeleteRecords, which lists the domain once, no id is
\* passed to DeleteRecord twice and every DeleteRecord is for a record the
\* API still holds (it is never refused for an id that is gone), whatever
\* the input list, one naming the same name, type and data twice included.
C15_DeleteOncePerId ==
    \A t \in Threads :
        DeleteListed(t) =>
            /\ \A n \in DeleteCallsBy(t) : \A m \in DeleteCallsBy(t) :
                   n # m => log[n].id # log[m].id
            /\ pc[t] = "return" => frame[t].res.err # "api"

\* no two input records of the operation have the same normalized name, type and data
DistinctInputs(t) ==
    \A j \in 1..Len(frame[t].records) : \A k \in 1..Len(frame[t].records) :
        j # k =>
            ~(/\ fqdn(RR(frame[t].records[j]).name, frame[t].zone)
                     = fqdn(RR(frame[t].records[k]).name, frame[t].zone)
              /\ RR(frame[t].records[j]).type = RR(frame[t].records[k]).type
              /\ RR(frame[t].records[j]).data = RR(frame[t].records[k]).data)

\* what does hold: C15 for input lists that name no record twice
C15_DistinctInputsDeleteOnce ==
    \A t \in Threads :
        (DeleteListed(t) /\ DistinctInputs(t)) =>
            /\ \A n \in DeleteCallsBy(t) : \A m \in DeleteCallsBy(t) :
                   n # m => log[n].id # log[m].id
            /\ pc[t] = "return" => frame[t].res.err # "api"

-----------------------------------------------------------------------------
(* Properties of one upsert's effect on the domain *)

\* the client calls a step adds to the log
NewCalls == {n \in 1..Len(log') : n > Len(log)}

\* what the second half of an upsert by t may do to the records the API holds
UpsertWriteFrame(t) ==
    LET f == frame[t]
        m == SameNameType(f.fetched, f.records[f.i], f.zone)
        first == CHOOSE p \in m : \A q \in m : p <= q
    IN  /\ Cardinality(NewCalls) <= 1
        /\ m # {} =>
               /\ Len(store') = Len(store)
               /\ \A p \in 1..Len(store) :
                      store[p].id # f.fetched[first].id => store'[p] = store[p]
               /\ \A p \in 1..Len(store) : store'[p].id = store[p].id
        /\ m = {} =>
               \/ store' = store
               \/ /\ Len(store') = Len(store) + 1
                  /\ SubSeq(store', 1, Len(store)) = store
                  /\ \E n \in NewCalls : log'[n].kind = "create" /\ log'[n].ok

\* C16: one upsert changes at most one record of the API. With a match the
\* number of records stays and every record but the matched id keeps its
\* name, type, data, ttl and priority; without a match one record is added
\* (none when the create fails) and the others stay; listing writes nothing,
\* and when listing fails the only client call made is the list.
C16_UpsertFrame ==
    [][\A t \in Threads :
           /\ pc[t] = "upsert_fetch" =>
                  /\ store' = store
                  /\ \A n \in NewCalls : log'[n].kind = "list"
                  /\ pc'[t] = "return" => frame'[t].res.err # ""
           /\ pc[t] = "upsert_write" => UpsertWriteFrame(t)]_vars

\* C16 witness: a set updated one of three records of a domain, and the two
\* others are as they were before the first operation.
C16_Witness ==
    /\ LastWriteBy(1)
    /\ log[Len(log)].kind = "update"
    /\ log[Len(log)].ok
    /\ Len(store) = 3
    /\ store # store0
    /\ Cardinality({p \in 1..3 : store[p] = store0[p]}) = 2

=============================================================================
